---- MODULE Spec2Model ----
(***************************************************************************)
(* Model of pkg/gitops/flux/flux.go: the Flux GitOps installer.            *)
(*                                                                         *)
(* One public operation runs at a time (the code is synchronous).  Each    *)
(* call to a collaborator (local git client, remote provider, toolkit      *)
(* client, file writer) is one step; its result is chosen by the           *)
(* environment.  pc is the position inside the running operation.          *)
(***************************************************************************)
EXTENDS Naturals, Sequences, FiniteSets

\* ------------------------------------------------------------------ bounds
MaxAttempts == 2        \* largest attempt count given to the retrier
MaxOps == 2             \* public operations invoked in one behaviour

\* --------------------------------------------------------------- constants
initialClusterconfigCommitMessage == "Initial commit of cluster configuration; generated by EKS-A CLI"
updateClusterconfigCommitMessage == "Update commit of cluster configuration; generated by EKS-A CLI"
deleteClusterconfigCommitMessage == "Delete commit of cluster configuration; generated by EKS-A CLI"
seedCommitMessage == "initializing repository"

eksaSystemDirName == "eksa-system"
kustomizeFileName == "kustomization.yaml"
clusterConfigFileName == "eksa-cluster.yaml"
fluxSyncFileName == "gotk-sync.yaml"
fluxPatchFileName == "gotk-patches.yaml"

\* Symbolic paths: the model keeps one configuration path and one cluster.
BasePath == "basePath"                  \* Spec.ClusterConfigPath
BaseDir == "dir(basePath)"              \* path.Dir(Spec.ClusterConfigPath)
EksaSystemDir == "basePath/cluster/eksa-system"
FluxSystemDir == "basePath/namespace"
Target == "branch"                      \* Spec.Branch

VARIABLES
    \* Flux fields
    gitTools,       \* TRUE iff f.gitTools # nil
    maxAttempts,    \* attempts the retrier allows
    github,         \* FluxConfig.Spec.Github # nil (and gitTools.Provider # nil)
    git,            \* FluxConfig.Spec.Git # nil
    \* parameters of the running call
    op,             \* the public operation
    selfManaged,    \* clusterSpec.Cluster.IsSelfManaged()
    existingManagement, \* cluster.ExistingManagement
    hasConfigs,     \* datacenterConfig # nil \/ machineConfigs # nil
    \* the world the collaborators act on
    remote,         \* "missing" | "empty" | "history"
    dotGit,         \* local working directory holds .git
    pathExists,     \* Spec.ClusterConfigPath exists under the local directory
    eksaExists,     \* the cluster's eksa-system directory exists locally
    remoteAhead,    \* the remote holds commits the local copy lacks
    unpushed,       \* commits of the running operation not yet pushed
    \* control
    pc,             \* position in the running operation
    phase,          \* "github" | "git" | "none": install path being run
    attempt,        \* failed attempts so far inside the current Retry
    pending,        \* error held while a later step runs
    ret,            \* value returned by the operation
    \* observation
    log,            \* collaborator calls of the running operation, in order;
                    \* of its running install path when it runs both paths
    pathsDone,      \* install paths the running operation has completed
    pp,             \* the latest pushToRemoteRepo invocation
    opCount,        \* operations started
    ready,          \* a setupProviderRepository invocation has returned nil
    readyAtStart    \* ready, as it was when the running operation started

fluxVars == <<gitTools, maxAttempts, github, git>>
fileVars == <<pathExists, eksaExists>>
worldVars == <<remote, dotGit, pathExists, eksaExists, remoteAhead, unpushed>>
vars == <<gitTools, maxAttempts, github, git, op, selfManaged, existingManagement,
          hasConfigs, remote, dotGit, pathExists, eksaExists, remoteAhead, unpushed,
          pc, phase, attempt, pending, ret, log, pathsDone, pp, opCount, ready,
          readyAtStart>>

\* ------------------------------------------------------------------ values
\* A returned value: ok (nil error), the failed call it stems from (cause),
\* whether a ConfigVersionControlFailedError was built around the cause (cvc),
\* whether the returned error value is, or %w-wraps, that error (typed), and
\* the length of the returned list (n; Validations only).
Nil == [ok |-> TRUE, cause |-> "", cvc |-> FALSE, typed |-> FALSE, n |-> 0]
NoRet == [ok |-> FALSE, cause |-> "running", cvc |-> FALSE, typed |-> FALSE, n |-> 0]
NoErr == [ok |-> TRUE, cause |-> "none", cvc |-> FALSE, typed |-> FALSE, n |-> 0]

\* A plain error (fmt.Errorf, or the collaborator's own error).
Err(cause) == [ok |-> FALSE, cause |-> cause, cvc |-> FALSE, typed |-> FALSE, n |-> 0]

\* &ConfigVersionControlFailedError{Err: ...}
ConfigVersionControlFailedError(cause) ==
    [ok |-> FALSE, cause |-> cause, cvc |-> TRUE, typed |-> TRUE, n |-> 0]

\* fmt.Errorf("...: %v", err): the text is kept, the error chain is not.
Flatten(e) == [e EXCEPT !.typed = FALSE]

\* A nil-interface method call: the goroutine panics, nothing is returned.
Panic == [ok |-> FALSE, cause |-> "panic", cvc |-> FALSE, typed |-> FALSE, n |-> 0]

NoPP == [commits |-> 0, pushes |-> 0, okAt |-> 0, result |-> "none"]

Call(c, a, r) == [c |-> c, a |-> a, r |-> r]

Count(c) == Cardinality({i \in DOMAIN log : log[i].c = c})
CountMsg(c, a) == Cardinality({i \in DOMAIN log : log[i].c = c /\ log[i].a = a})
CountOk(c) == Cardinality({i \in DOMAIN log : log[i].c = c /\ log[i].r = "ok"})
First(c) == CHOOSE i \in DOMAIN log : log[i].c = c /\ \A j \in DOMAIN log : log[j].c = c => i <= j

\* ------------------------------------------------------------------- Init
Init ==
    /\ gitTools \in BOOLEAN
    /\ maxAttempts \in 1..MaxAttempts
    /\ github \in BOOLEAN
    /\ git \in BOOLEAN
    /\ op = "none"
    /\ selfManaged = TRUE
    /\ existingManagement = FALSE
    /\ hasConfigs = TRUE
    /\ remote \in {"missing", "empty", "history"}
    /\ dotGit = FALSE
    /\ pathExists = FALSE
    /\ eksaExists = FALSE
    /\ remoteAhead = FALSE
    /\ unpushed = 0
    /\ pc = "idle"
    /\ phase = "none"
    /\ attempt = 0
    /\ pending = NoErr
    /\ ret = NoRet
    /\ log = <<>>
    /\ pathsDone = 0
    /\ pp = NoPP
    /\ opCount = 0
    /\ ready = FALSE
    /\ readyAtStart = FALSE

\* ------------------------------------------------------------ the retrier
\* retrier.Retry(fn) calls fn until it returns nil or the attempts are used up:
\* failed is the number of attempts that have failed before the current one.
RetryAgain(failed) == failed + 1 < maxAttempts

\* ------------------------------------------------------------ entry points
\* shouldSkipFlux with the nil test inverted.
shouldSkipFlux_Inverted == gitTools

shouldSkipFlux == ~gitTools

CanStart == pc \in {"idle", "done", "validations"} /\ opCount < MaxOps

\* What every entry point does to the bookkeeping of the model.
Begin(o) ==
    /\ op' = o
    /\ opCount' = opCount + 1
    /\ log' = <<>>
    /\ pathsDone' = 0
    /\ pp' = NoPP
    /\ unpushed' = 0
    /\ attempt' = 0
    /\ pending' = NoErr
    /\ readyAtStart' = ready
    /\ UNCHANGED <<fluxVars, remote, dotGit, fileVars, remoteAhead, ready>>

Skip == pc' = "done" /\ ret' = Nil /\ phase' = "none"

InstallGitOps ==
    /\ CanStart
    /\ Begin("Install")
    /\ selfManaged' \in BOOLEAN
    /\ existingManagement' \in BOOLEAN
    /\ hasConfigs' \in BOOLEAN
    /\ IF shouldSkipFlux THEN Skip
       ELSE /\ ret' = NoRet
            /\ IF github THEN pc' = "GetRepo" /\ phase' = "github"
               ELSE IF git THEN pc' = "Clone" /\ phase' = "git"
               ELSE pc' = "Pull" /\ phase' = "none"

UpdateGitEksaSpec ==
    /\ CanStart
    /\ Begin("Update")
    /\ selfManaged' \in BOOLEAN
    /\ existingManagement' = FALSE
    /\ hasConfigs' \in BOOLEAN
    /\ IF shouldSkipFlux THEN Skip
       ELSE /\ ret' = NoRet
            /\ phase' = "none"
            /\ pc' = "syncGitRepo"

CleanupGitRepo ==
    /\ CanStart
    /\ Begin("Cleanup")
    /\ selfManaged' \in BOOLEAN
    /\ existingManagement' = FALSE
    /\ hasConfigs' = FALSE
    /\ IF shouldSkipFlux THEN Skip
       ELSE /\ ret' = NoRet
            /\ phase' = "none"
            /\ pc' = "syncGitRepo"

PauseGitOpsKustomization ==
    /\ CanStart
    /\ Begin("Pause")
    /\ selfManaged' = TRUE
    /\ existingManagement' = FALSE
    /\ hasConfigs' = FALSE
    /\ IF shouldSkipFlux THEN Skip
       ELSE ret' = NoRet /\ phase' = "none" /\ pc' = "SuspendKustomization"

ResumeGitOpsKustomization ==
    /\ CanStart
    /\ Begin("Resume")
    /\ selfManaged' = TRUE
    /\ existingManagement' = FALSE
    /\ hasConfigs' = FALSE
    /\ IF shouldSkipFlux THEN Skip
       ELSE ret' = NoRet /\ phase' = "none" /\ pc' = "ResumeKustomization"

ForceReconcileGitRepo ==
    /\ CanStart
    /\ Begin("ForceReconcile")
    /\ selfManaged' = TRUE
    /\ existingManagement' = FALSE
    /\ hasConfigs' = FALSE
    /\ IF shouldSkipFlux THEN Skip
       ELSE ret' = NoRet /\ phase' = "none" /\ pc' = "ForceReconcile"

\* Validations returns the list of checks; it runs none of them.
Validations ==
    /\ CanStart
    /\ Begin("Validations")
    /\ selfManaged' \in BOOLEAN
    /\ existingManagement' = FALSE
    /\ hasConfigs' = FALSE
    /\ phase' = "none"
    /\ IF shouldSkipFlux THEN pc' = "done" /\ ret' = Nil
       ELSE pc' = "validations" /\ ret' = [Nil EXCEPT !.n = 1]

\* ------------------------------------------------------------ step helpers
fixed == <<gitTools, maxAttempts, github, git, op, selfManaged, existingManagement,
           hasConfigs, opCount, readyAtStart, pathsDone>>

Logged(c, a, r) == log' = Append(log, Call(c, a, r))
Goto(p) == pc' = p /\ attempt' = 0 /\ UNCHANGED ret
Again == pc' = pc /\ attempt' = attempt + 1 /\ UNCHANGED ret
Finish(r) == pc' = "done" /\ attempt' = 0 /\ ret' = r

\* InstallGitOps returns fmt.Errorf("installing ... gitops: %v", err); the other
\* operations return the error they got.
Returned(e) == IF op = "Install" THEN Flatten(e) ELSE e

\* Where control goes when a sub-procedure returns nil.
\* The toolkit manifests written for managed instead of self-managed clusters.
AfterEksaFiles_Managed == IF op = "Install" /\ ~selfManaged THEN "initFluxWriter" ELSE "Add"

\* commitFluxAndClusterConfigToGit without the call of writeFluxSystemFiles.
AfterEksaFiles_NoFlux == "Add"

AfterEksaFiles == IF op = "Install" /\ selfManaged THEN "initFluxWriter" ELSE "Add"
AfterValidate == IF hasConfigs THEN "initEksaWriter" ELSE AfterEksaFiles
AfterSync == IF op = "Update" THEN AfterValidate ELSE "removalPath"
AfterClone == IF op = "Install" THEN "validateLocal" ELSE AfterSync

\* ------------------------------------------------- setupProviderRepository
\* setupProviderRepository with "if r != nil" lost: the remote is always created.
AfterGetRepo_AlwaysCreate == "CreateRepo"

\* setupProviderRepository: clone when GetRepo found the repository (r # nil),
\* create it when it did not.
AfterGetRepo == IF remote = "missing" THEN "CreateRepo" ELSE "Clone"

GetRepo ==
    /\ pc = "GetRepo"
    /\ \E r \in {"ok", "fail"} :
        IF r = "ok"
        THEN /\ Logged("GetRepo", <<>>, IF remote = "missing" THEN "notfound" ELSE "found")
             /\ Goto(AfterGetRepo)
        ELSE /\ Logged("GetRepo", <<>>, "fail")
             /\ IF RetryAgain(attempt) THEN Again
                ELSE Finish(Returned(Err("GetRepo")))
    /\ UNCHANGED <<fixed, remote, dotGit, fileVars, remoteAhead, unpushed, phase,
                   pending, pp, ready>>

\* What Clone can answer for each state of the remote.
CloneOutcomes ==
    CASE remote = "missing" -> {"fail"}
      [] remote = "empty" -> {"empty", "fail"}
      [] remote = "history" -> {"ok", "fail"}

\* The error clone() returned, as its caller hands it on.
CloneFailed(cause) ==
    IF op = "Install" /\ phase = "github"
    THEN Finish(Returned(ConfigVersionControlFailedError(cause)))
    ELSE Finish(Returned(Err(cause)))

\* setupProviderRepository without the errors.As test: every clone error is fatal.
CloneReturned_NoFallback(r) ==
    CloneFailed(IF r = "empty" THEN "RepositoryIsEmpty" ELSE "Clone")

\* The local-initialization fallback taken by every caller of clone().
CloneReturned_FallbackEverywhere(r) ==
    IF r = "empty" THEN Goto("Init") ELSE CloneFailed("Clone")

\* setupProviderRepository taking every clone error for the empty repository.
CloneReturned_AnyError(r) ==
    IF op = "Install" /\ phase = "github"
    THEN Goto("Init")
    ELSE Finish(Returned(Err(IF r = "empty" THEN "RepositoryIsEmpty" ELSE "Clone")))

\* The Retry around Clone has returned the error r of its last attempt:
\* setupProviderRepository falls back to the local initialization on a
\* RepositoryIsEmptyError, every other caller returns the error.
CloneReturned(r) ==
    IF r = "empty"
    THEN IF op = "Install" /\ phase = "github"
         THEN Goto("Init")
         ELSE Finish(Returned(Err("RepositoryIsEmpty")))
    ELSE CloneFailed("Clone")

Clone ==
    /\ pc = "Clone"
    /\ \E r \in CloneOutcomes :
        /\ Logged("Clone", <<>>, r)
        /\ IF r = "ok"
           THEN /\ Goto("Branch")
                /\ dotGit' = TRUE
                /\ remoteAhead' = FALSE
                /\ \E p, e \in BOOLEAN :
                    /\ e => p
                    /\ pathExists' = p
                    /\ eksaExists' = e
           ELSE /\ UNCHANGED <<dotGit, remoteAhead, fileVars>>
                /\ IF RetryAgain(attempt) THEN Again ELSE CloneReturned(r)
    /\ UNCHANGED <<fixed, remote, unpushed, phase, pending, pp, ready>>

\* clone(): the Branch call after a successful Clone.
Branch ==
    /\ pc = "Branch"
    /\ \E r \in {"ok", "fail"} :
        /\ Logged("Branch", <<Target>>, r)
        /\ IF r = "ok"
           THEN /\ Goto(AfterClone)
                /\ ready' = (ready \/ (op = "Install" /\ phase = "github"))
           ELSE /\ CloneFailed("Branch")
                /\ UNCHANGED ready
    /\ UNCHANGED <<fixed, remote, dotGit, fileVars, remoteAhead, unpushed, phase,
                   pending, pp>>

\* setupProviderRepository with the error of createRemoteRepository dropped.
CreateRepoFailed_Ignored == Goto("Init")

\* setupProviderRepository: createRemoteRepository returned an error.
CreateRepoFailed == Finish(Returned(ConfigVersionControlFailedError("CreateRepo")))

createRemoteRepository ==
    /\ pc = "CreateRepo"
    /\ \E r \in {"ok", "fail"} :
        /\ Logged("CreateRepo", <<>>, r)
        /\ IF r = "ok"
           THEN Goto("Init") /\ remote' = "empty"
           ELSE /\ UNCHANGED remote
                /\ IF RetryAgain(attempt) THEN Again ELSE CreateRepoFailed
    /\ UNCHANGED <<fixed, dotGit, fileVars, remoteAhead, unpushed, phase, pending,
                   pp, ready>>

\* initializeLocalRepository, first call: Init.
InitLocal ==
    /\ pc = "Init"
    /\ \E r \in {"ok", "fail"} :
        /\ Logged("Init", <<>>, r)
        /\ IF r = "ok"
           THEN Goto("SeedCommit") /\ dotGit' = TRUE
           ELSE Finish(Returned(ConfigVersionControlFailedError("Init"))) /\ UNCHANGED dotGit
    /\ UNCHANGED <<fixed, remote, fileVars, remoteAhead, unpushed, phase, pending,
                   pp, ready>>

\* initializeLocalRepository, second call: the seed commit.
SeedCommit ==
    /\ pc = "SeedCommit"
    /\ \E r \in {"ok", "fail"} :
        /\ Logged("Commit", <<seedCommitMessage>>, r)
        /\ IF r = "ok"
           THEN Goto("InitBranch") /\ unpushed' = unpushed + 1
           ELSE /\ Finish(Returned(ConfigVersionControlFailedError("SeedCommit")))
                /\ UNCHANGED unpushed
    /\ UNCHANGED <<fixed, remote, dotGit, fileVars, remoteAhead, phase, pending,
                   pp, ready>>

\* initializeLocalRepository, third call: Branch; then setupProviderRepository
\* returns nil.
InitBranch ==
    /\ pc = "InitBranch"
    /\ \E r \in {"ok", "fail"} :
        /\ Logged("Branch", <<Target>>, r)
        /\ IF r = "ok"
           THEN Goto("validateLocal") /\ ready' = TRUE
           ELSE Finish(Returned(ConfigVersionControlFailedError("Branch"))) /\ UNCHANGED ready
    /\ UNCHANGED <<fixed, remote, dotGit, fileVars, remoteAhead, unpushed, phase,
                   pending, pp>>

\* ------------------------------------------------------------- syncGitRepo
\* syncGitRepo without the test for .git: it always clones.
syncGitRepo_AlwaysClone ==
    /\ pc = "syncGitRepo"
    /\ Goto("Clone")
    /\ UNCHANGED <<fixed, worldVars, phase, pending, log, pp, ready>>

\* syncGitRepo without the Branch call of its else branch.
syncGitRepo_NoBranch ==
    /\ pc = "syncGitRepo"
    /\ Goto(IF ~dotGit THEN "Clone" ELSE AfterSync)
    /\ UNCHANGED <<fixed, worldVars, phase, pending, log, pp, ready>>

\* syncGitRepo: clone() when the local directory holds no .git, Branch when it does.
syncGitRepo ==
    /\ pc = "syncGitRepo"
    /\ Goto(IF ~dotGit THEN "Clone" ELSE "SyncBranch")
    /\ UNCHANGED <<fixed, worldVars, phase, pending, log, pp, ready>>

\* syncGitRepo, .git present: switch to the configured branch.
SyncBranch ==
    /\ pc = "SyncBranch"
    /\ \E r \in {"ok", "fail"} :
        /\ Logged("Branch", <<Target>>, r)
        /\ IF r = "ok" THEN Goto(AfterSync) ELSE Finish(Err("Branch"))
    /\ UNCHANGED <<fixed, worldVars, phase, pending, pp, ready>>

\* ------------------------------------------ commitFluxAndClusterConfigToGit
\* validateLocalConfigPathDoesNotExist without the IsSelfManaged test.
validateLocalConfigPathDoesNotExist_AnyCluster ==
    /\ pc = "validateLocal"
    /\ IF pathExists
       THEN Finish(Returned(ConfigVersionControlFailedError("ConfigPathExists")))
       ELSE Goto(AfterValidate)
    /\ UNCHANGED <<fixed, worldVars, phase, pending, log, pp, ready>>

\* validateLocalConfigPathDoesNotExist, called first by
\* commitFluxAndClusterConfigToGit, which wraps its error.
validateLocalConfigPathDoesNotExist ==
    /\ pc = "validateLocal"
    /\ IF selfManaged /\ pathExists
       THEN Finish(Returned(ConfigVersionControlFailedError("ConfigPathExists")))
       ELSE Goto(AfterValidate)
    /\ UNCHANGED <<fixed, worldVars, phase, pending, log, pp, ready>>

\* An error of writeEksaSystemFiles or writeFluxSystemFiles: the install path
\* wraps it, UpdateGitEksaSpec returns it as it is.
WriteFailed(cause) ==
    IF op = "Install"
    THEN Finish(Returned(ConfigVersionControlFailedError(cause)))
    ELSE Finish(Err(cause))

\* Writer.WithDir: "ok", "fail" (an error with a usable writer) or "nil" (an
\* error with a nil writer, on which CleanUpTemp panics).
WithDir(dir, next) ==
    \E r \in {"ok", "fail", "nil"} :
        /\ Logged("WithDir", <<dir>>, r)
        /\ IF r = "ok"
           THEN /\ Goto(next)
                /\ pathExists' = TRUE
                /\ eksaExists' = (eksaExists \/ dir = EksaSystemDir)
           ELSE /\ UNCHANGED fileVars
                /\ IF r = "nil" THEN Finish(Panic) ELSE WriteFailed("WithDir")

\* Writer.Write / Templater.WriteToFile of one file.
WriteFile(dir, file, next) ==
    \E r \in {"ok", "fail"} :
        /\ Logged("Write", <<dir, file>>, r)
        /\ IF r = "ok" THEN Goto(next) ELSE WriteFailed("Write")

initEksaWriter ==
    /\ pc = "initEksaWriter"
    /\ WithDir(EksaSystemDir, "generateClusterConfigFile")
    /\ UNCHANGED <<fixed, remote, dotGit, remoteAhead, unpushed, phase, pending, pp, ready>>

generateClusterConfigFile ==
    /\ pc = "generateClusterConfigFile"
    /\ WriteFile(EksaSystemDir, clusterConfigFileName, "generateEksaKustomizeFile")
    /\ UNCHANGED <<fixed, worldVars, phase, pending, pp, ready>>

generateEksaKustomizeFile ==
    /\ pc = "generateEksaKustomizeFile"
    /\ WriteFile(EksaSystemDir, kustomizeFileName, AfterEksaFiles)
    /\ UNCHANGED <<fixed, worldVars, phase, pending, pp, ready>>

initFluxWriter ==
    /\ pc = "initFluxWriter"
    /\ WithDir(FluxSystemDir, "generateFluxKustomizeFile")
    /\ UNCHANGED <<fixed, remote, dotGit, remoteAhead, unpushed, phase, pending, pp, ready>>

generateFluxKustomizeFile ==
    /\ pc = "generateFluxKustomizeFile"
    /\ WriteFile(FluxSystemDir, kustomizeFileName, "generateFluxSyncFile")
    /\ UNCHANGED <<fixed, worldVars, phase, pending, pp, ready>>

generateFluxSyncFile ==
    /\ pc = "generateFluxSyncFile"
    /\ WriteFile(FluxSystemDir, fluxSyncFileName, "generateFluxPatchFile")
    /\ UNCHANGED <<fixed, worldVars, phase, pending, pp, ready>>

generateFluxPatchFile ==
    /\ pc = "generateFluxPatchFile"
    /\ WriteFile(FluxSystemDir, fluxPatchFileName, "Add")
    /\ UNCHANGED <<fixed, worldVars, phase, pending, pp, ready>>

\* Client.Add of the install path (the directory of the configuration path)
\* and of UpdateGitEksaSpec (the eksa-system directory).
\* The Add call with its error dropped: the commit follows all the same.
Add_ErrorIgnored ==
    /\ pc = "Add"
    /\ \E r \in {"ok", "fail"} :
        /\ Logged("Add", <<IF op = "Install" THEN BaseDir ELSE EksaSystemDir>>, r)
        /\ Goto("Commit")
    /\ UNCHANGED <<fixed, worldVars, phase, pending, pp, ready>>

Add ==
    /\ pc = "Add"
    /\ \E r \in {"ok", "fail"} :
        /\ Logged("Add", <<IF op = "Install" THEN BaseDir ELSE EksaSystemDir>>, r)
        /\ IF r = "ok" THEN Goto("Commit")
           ELSE Finish(Returned(ConfigVersionControlFailedError("Add")))
    /\ UNCHANGED <<fixed, worldVars, phase, pending, pp, ready>>

\* ---------------------------------------------------------- pushToRemoteRepo
CommitMessage ==
    CASE op = "Install" -> initialClusterconfigCommitMessage
      [] op = "Update" -> updateClusterconfigCommitMessage
      [] op = "Cleanup" -> deleteClusterconfigCommitMessage

\* InstallGitOps returning nil without the pull.
AfterPhase_NoPull == IF phase = "github" /\ git THEN "installGitOpsGenericGit" ELSE "done"

\* Where control goes when pushToRemoteRepo returns nil.
AfterPhase == IF phase = "github" /\ git THEN "installGitOpsGenericGit" ELSE "Pull"
\* The install path without the ExistingManagement test.
AfterPush_AlwaysBootstrap == IF op = "Install" THEN "Bootstrap" ELSE "done"

AfterPush ==
    IF op = "Install"
    THEN IF ~existingManagement THEN "Bootstrap" ELSE AfterPhase
    ELSE "done"

\* pushToRemoteRepo or the bootstrap returned nil: go on, or return nil.
Leave(p) ==
    /\ pc' = p
    /\ attempt' = 0
    /\ UNCHANGED phase
    /\ ret' = IF p = "done" THEN Nil ELSE ret

\* InstallGitOps with the hosted path done and Spec.Git set as well: the
\* generic path runs next, from its clone.
installGitOpsGenericGit ==
    /\ pc = "installGitOpsGenericGit"
    /\ pc' = "Clone"
    /\ phase' = "git"
    /\ log' = <<>>
    /\ pathsDone' = pathsDone + 1
    /\ UNCHANGED <<gitTools, maxAttempts, github, git, op, selfManaged,
                   existingManagement, hasConfigs, opCount, readyAtStart, worldVars,
                   attempt, pending, ret, pp, ready>>

\* pushToRemoteRepo with the error of Commit dropped: it goes on to push.
CommitFailed_Ignored ==
    /\ Goto("Push")
    /\ pp' = [commits |-> 1, pushes |-> 0, okAt |-> 0, result |-> "running"]

\* pushToRemoteRepo with Commit under the retrier.
CommitFailed_Retried ==
    IF RetryAgain(attempt)
    THEN Again /\ pp' = pp
    ELSE /\ Finish(Returned(ConfigVersionControlFailedError("Commit")))
         /\ pp' = [commits |-> 1, pushes |-> 0, okAt |-> 0, result |-> "failed"]

\* pushToRemoteRepo: Commit returned an error.
CommitFailed ==
    /\ Finish(Returned(ConfigVersionControlFailedError("Commit")))
    /\ pp' = [commits |-> 1, pushes |-> 0, okAt |-> 0, result |-> "failed"]

\* pushToRemoteRepo, first statement: Commit(msg), never retried.
Commit ==
    /\ pc = "Commit"
    /\ \E r \in {"ok", "fail"} :
        /\ Logged("Commit", <<CommitMessage>>, r)
        /\ IF r = "ok"
           THEN /\ Goto("Push")
                /\ unpushed' = unpushed + 1
                /\ pp' = [commits |-> 1, pushes |-> 0, okAt |-> 0, result |-> "running"]
           ELSE /\ CommitFailed
                /\ UNCHANGED unpushed
    /\ UNCHANGED <<fixed, remote, dotGit, fileVars, remoteAhead, phase, pending, ready>>

\* pushToRemoteRepo with Push called outside the retrier.
PushFailed_NoRetry ==
    /\ Finish(Returned(ConfigVersionControlFailedError("Push")))
    /\ pp' = [pp EXCEPT !.pushes = @ + 1, !.result = "failed"]

\* pushToRemoteRepo with the error of the Retry around Push dropped.
PushExhausted_Nil ==
    /\ pc' = AfterPush
    /\ attempt' = 0
    /\ ret' = IF AfterPush = "done" THEN Nil ELSE ret
    /\ pp' = [pp EXCEPT !.pushes = @ + 1, !.result = "ok"]

\* pushToRemoteRepo: the Retry around Push returned an error.
PushExhausted ==
    /\ Finish(Returned(ConfigVersionControlFailedError("Push")))
    /\ pp' = [pp EXCEPT !.pushes = @ + 1, !.result = "failed"]

\* pushToRemoteRepo: a Push attempt failed.
PushFailed ==
    IF RetryAgain(attempt)
    THEN Again /\ pp' = [pp EXCEPT !.pushes = @ + 1]
    ELSE PushExhausted

\* pushToRemoteRepo, second statement: Push under the retrier.
Push ==
    /\ pc = "Push"
    /\ \E r \in {"ok", "fail"} :
        /\ Logged("Push", <<>>, r)
        /\ IF r = "ok"
           THEN /\ Leave(AfterPush)
                /\ unpushed' = 0
                /\ remote' = "history"
                /\ pp' = [pp EXCEPT !.pushes = @ + 1, !.okAt = pp.pushes + 1, !.result = "ok"]
           ELSE /\ UNCHANGED <<unpushed, remote, phase>>
                /\ PushFailed
    /\ UNCHANGED <<fixed, dotGit, fileVars, remoteAhead, pending, ready>>

\* ------------------------------------------------- bootstrap and rollback
BootstrapCall == IF phase = "github" THEN "BootstrapGithub" ELSE "BootstrapGit"

\* installGitOpsGithub / installGitOpsGenericGit: the bootstrap call under the
\* retrier.  A successful bootstrap commits the toolkit manifests to the remote.
\* The install path without the rollback: the bootstrap error is returned at once.
BootstrapFailed_NoRollback ==
    /\ Finish(Returned(Err("Bootstrap")))
    /\ pending' = NoErr

\* The Retry around the bootstrap call returned an error: roll back.
BootstrapFailed ==
    /\ Goto("Uninstall")
    /\ pending' = Err("Bootstrap")

Bootstrap ==
    /\ pc = "Bootstrap"
    /\ \E r \in {"ok", "fail"} :
        /\ Logged(BootstrapCall, <<>>, r)
        /\ IF r = "ok"
           THEN /\ Leave(AfterPhase)
                /\ remoteAhead' = TRUE
                /\ UNCHANGED pending
           ELSE /\ UNCHANGED <<remoteAhead, phase>>
                /\ IF RetryAgain(attempt)
                   THEN Again /\ UNCHANGED pending
                   ELSE BootstrapFailed
    /\ UNCHANGED <<fixed, remote, dotGit, fileVars, unpushed, pp, ready>>

\* uninstallGitOpsToolkits, called when the bootstrap failed: Uninstall under
\* the retrier; its error is logged, the bootstrap error is returned.
\* The install path returning the error of the rollback when it has one.
RollbackReturns_UninstallErr(r) == IF r = "fail" THEN Err("Uninstall") ELSE pending

\* installGitOpsGithub / installGitOpsGenericGit after the rollback ended with
\* r: uninstallErr is logged, err (the bootstrap error) is returned.
RollbackReturns(r) == pending

uninstallGitOpsToolkits ==
    /\ pc = "Uninstall"
    /\ \E r \in {"ok", "fail"} :
        /\ Logged("Uninstall", <<>>, r)
        /\ IF r = "fail" /\ RetryAgain(attempt)
           THEN Again /\ UNCHANGED pending
           ELSE Finish(Returned(RollbackReturns(r))) /\ pending' = NoErr
    /\ UNCHANGED <<fixed, worldVars, phase, pp, ready>>

\* InstallGitOps, last step: the pull under the retrier; its error is logged.
Pull ==
    /\ pc = "Pull"
    /\ \E r \in {"ok", "fail"} :
        /\ Logged("Pull", <<Target>>, r)
        /\ IF r = "ok"
           THEN Finish(Nil) /\ remoteAhead' = FALSE
           ELSE /\ UNCHANGED remoteAhead
                /\ IF RetryAgain(attempt) THEN Again ELSE Finish(Nil)
    /\ UNCHANGED <<fixed, remote, dotGit, fileVars, unpushed, phase, pending, pp, ready>>

\* ----------------------------------------------------------- CleanupGitRepo
\* CleanupGitRepo testing the base configuration path for every cluster.
RemovalPathExists_BasePath == pathExists

\* The path CleanupGitRepo removes exists locally.
RemovalPathExists == IF ~selfManaged THEN eksaExists ELSE pathExists

removalPath ==
    /\ pc = "removalPath"
    /\ IF RemovalPathExists THEN Goto("Remove") ELSE Finish(Nil)
    /\ UNCHANGED <<fixed, worldVars, phase, pending, log, pp, ready>>

Remove ==
    /\ pc = "Remove"
    /\ \E r \in {"ok", "fail"} :
        /\ Logged("Remove", <<IF ~selfManaged THEN EksaSystemDir ELSE BasePath>>, r)
        /\ IF r = "ok"
           THEN /\ Goto("Commit")
                /\ eksaExists' = FALSE
                /\ pathExists' = (pathExists /\ ~selfManaged)
           ELSE /\ Finish(ConfigVersionControlFailedError("Remove"))
                /\ UNCHANGED fileVars
    /\ UNCHANGED <<fixed, remote, dotGit, remoteAhead, unpushed, phase, pending, pp, ready>>

\* ------------------------------------------------------- toolkit operations
\* One call of the toolkit client under the retrier; its error is returned.
Retried(c) ==
    \E r \in {"ok", "fail"} :
        /\ Logged(c, <<>>, r)
        /\ IF r = "ok" THEN Finish(Nil)
           ELSE IF RetryAgain(attempt) THEN Again ELSE Finish(Err(c))

SuspendKustomization ==
    /\ pc = "SuspendKustomization"
    /\ Retried("SuspendKustomization")
    /\ UNCHANGED <<fixed, worldVars, phase, pending, pp, ready>>

ResumeKustomization ==
    /\ pc = "ResumeKustomization"
    /\ Retried("ResumeKustomization")
    /\ UNCHANGED <<fixed, worldVars, phase, pending, pp, ready>>

\* ForceReconcileGitRepo: one call, no retrier.
ForceReconcile ==
    /\ pc = "ForceReconcile"
    /\ \E r \in {"ok", "fail"} :
        /\ Logged("ForceReconcileGitRepo", <<>>, r)
        /\ Finish(IF r = "ok" THEN Nil ELSE Err("ForceReconcileGitRepo"))
    /\ UNCHANGED <<fixed, worldVars, phase, pending, pp, ready>>

\* The caller runs the check Validations returned.
validateRemoteConfigPathDoesNotExist ==
    /\ pc = "validations"
    /\ IF selfManaged /\ github
       THEN \E r \in {"absent", "exists", "fail"} :
               /\ Logged("PathExists", <<BasePath>>, r)
               /\ Finish([(IF r = "absent" THEN Nil ELSE Err("PathExists")) EXCEPT !.n = 1])
       ELSE Finish([Nil EXCEPT !.n = 1]) /\ UNCHANGED log
    /\ UNCHANGED <<fixed, worldVars, phase, pending, pp, ready>>

\* ------------------------------------------------------------ specification
Next ==
    \/ InstallGitOps
    \/ UpdateGitEksaSpec
    \/ CleanupGitRepo
    \/ PauseGitOpsKustomization
    \/ ResumeGitOpsKustomization
    \/ ForceReconcileGitRepo
    \/ Validations
    \/ GetRepo
    \/ Clone
    \/ Branch
    \/ createRemoteRepository
    \/ InitLocal
    \/ SeedCommit
    \/ InitBranch
    \/ syncGitRepo
    \/ SyncBranch
    \/ validateLocalConfigPathDoesNotExist
    \/ initEksaWriter
    \/ generateClusterConfigFile
    \/ generateEksaKustomizeFile
    \/ initFluxWriter
    \/ generateFluxKustomizeFile
    \/ generateFluxSyncFile
    \/ generateFluxPatchFile
    \/ Add
    \/ Commit
    \/ Push
    \/ Bootstrap
    \/ uninstallGitOpsToolkits
    \/ installGitOpsGenericGit
    \/ Pull
    \/ removalPath
    \/ Remove
    \/ SuspendKustomization
    \/ ResumeKustomization
    \/ ForceReconcile
    \/ validateRemoteConfigPathDoesNotExist

Spec == Init /\ [][Next]_vars

\* The steps of a running operation.  The code is synchronous: once an
\* operation is called, each collaborator call returns and the next statement
\* runs.
Step ==
    \/ GetRepo
    \/ Clone
    \/ Branch
    \/ createRemoteRepository
    \/ InitLocal
    \/ SeedCommit
    \/ InitBranch
    \/ syncGitRepo
    \/ SyncBranch
    \/ validateLocalConfigPathDoesNotExist
    \/ initEksaWriter
    \/ generateClusterConfigFile
    \/ generateEksaKustomizeFile
    \/ initFluxWriter
    \/ generateFluxKustomizeFile
    \/ generateFluxSyncFile
    \/ generateFluxPatchFile
    \/ Add
    \/ Commit
    \/ Push
    \/ Bootstrap
    \/ uninstallGitOpsToolkits
    \/ installGitOpsGenericGit
    \/ Pull
    \/ removalPath
    \/ Remove
    \/ SuspendKustomization
    \/ ResumeKustomization
    \/ ForceReconcile

\* Spec with a running operation always taking its next step; whether and
\* when the caller starts an operation, or runs a returned check, is left open.
FairSpec == Spec /\ WF_vars(Step)

TypeOK ==
    /\ remote \in {"missing", "empty", "history"}
    /\ attempt \in 0..(maxAttempts - 1)
    /\ unpushed \in 0..3
    /\ eksaExists => pathExists
    /\ (pc = "done") = (ret # NoRet /\ pc # "validations" /\ pc # "idle")

\* ================================================================= claims
IsPrefix(s, t) == Len(s) <= Len(t) /\ SubSeq(t, 1, Len(s)) = s
NoFailure == \A i \in DOMAIN log : log[i].r \in {"ok", "found", "notfound"}
CountFail(c) == Cardinality({i \in DOMAIN log : log[i].c = c /\ log[i].r = "fail"})
Last == log[Len(log)]

\* C1: with gitTools nil no operation ever leaves its entry point: no
\* collaborator call (git, provider, toolkit, writer) is made, and each of the
\* seven operations returns nil (an empty list for Validations).
C1_UnconfiguredIsNoOp ==
    ~gitTools =>
        /\ pc \in {"idle", "done"}
        /\ log = <<>>
        /\ pc = "done" => ret = Nil
        /\ ~dotGit /\ ~pathExists /\ ~remoteAhead /\ unpushed = 0

C1_Witness ==
    /\ ~gitTools
    /\ pc = "done"
    /\ opCount = 2
    /\ op \in {"Install", "Validations"}

\* The calls of a hosted install of a self-managed cluster into a missing
\* remote when nothing fails, up to the bootstrap.
HostedMissingCalls(addPath) ==
    << Call("GetRepo", <<>>, "notfound"),
       Call("CreateRepo", <<>>, "ok"),
       Call("Init", <<>>, "ok"),
       Call("Commit", <<seedCommitMessage>>, "ok"),
       Call("Branch", <<Target>>, "ok"),
       Call("WithDir", <<EksaSystemDir>>, "ok"),
       Call("Write", <<EksaSystemDir, clusterConfigFileName>>, "ok"),
       Call("Write", <<EksaSystemDir, kustomizeFileName>>, "ok"),
       Call("WithDir", <<FluxSystemDir>>, "ok"),
       Call("Write", <<FluxSystemDir, kustomizeFileName>>, "ok"),
       Call("Write", <<FluxSystemDir, fluxSyncFileName>>, "ok"),
       Call("Write", <<FluxSystemDir, fluxPatchFileName>>, "ok"),
       Call("Add", <<addPath>>, "ok"),
       Call("Commit", <<initialClusterconfigCommitMessage>>, "ok"),
       Call("Push", <<>>, "ok"),
       Call("BootstrapGithub", <<>>, "ok") >>

\* The log up to, and without, the first Pull.
BeforePull ==
    IF Count("Pull") = 0 THEN log ELSE SubSeq(log, 1, First("Pull") - 1)

\* A finished hosted install of a self-managed cluster that found the remote
\* missing and saw no collaborator fail.
HostedMissingScenario ==
    /\ pc = "done"
    /\ op = "Install"
    /\ gitTools
    /\ github
    /\ selfManaged
    /\ NoFailure
    /\ Len(log) > 0
    /\ log[1] = Call("GetRepo", <<>>, "notfound")

\* C2 as stated: in that scenario the calls are GetRepo (not found), CreateRepo,
\* Init, the seed commit, Branch, the eksa-system and flux-system writes,
\* Add(basePath), the initial commit, Push, BootstrapGithub.
C2_Original ==
    HostedMissingScenario => BeforePull = HostedMissingCalls(BasePath)

\* The hosted install the scenario is about, finished or not: a datacenter or
\* machine configuration is passed, the cluster is no existing management
\* cluster and no generic git provider is configured as well.
HostedMissingRun ==
    /\ op = "Install"
    /\ gitTools
    /\ github
    /\ ~git
    /\ selfManaged
    /\ hasConfigs
    /\ ~existingManagement
    /\ NoFailure
    /\ Len(log) > 0
    /\ log[1] = Call("GetRepo", <<>>, "notfound")

HostedMissingAll == HostedMissingCalls(BaseDir) \o <<Call("Pull", <<Target>>, "ok")>>

\* C2 amended: for such an install the calls are, in this order, GetRepo (not
\* found), CreateRepo, Init, the seed commit, Branch, the eksa-system and the
\* flux-system writes, Add of the directory that contains the configuration
\* path, the initial commit, Push, BootstrapGithub and then Pull, each once;
\* the install stops before the writes only if the configuration path already
\* exists locally, and otherwise returns nil after the Pull.
C2_HostedMissingOrder ==
    HostedMissingRun =>
        /\ IsPrefix(log, HostedMissingAll)
        /\ pc = "done" =>
              \/ log = HostedMissingAll /\ ret = Nil
              \/ /\ ret.cause = "ConfigPathExists"
                 /\ log = SubSeq(HostedMissingAll, 1, 5)

C2_Witness ==
    /\ HostedMissingRun
    /\ pc = "done"
    /\ ret = Nil
    /\ log = HostedMissingAll

\* The Retry around a bootstrap call has failed: every attempt failed.
BootstrapExhausted ==
    /\ op = "Install"
    /\ \E c \in {"BootstrapGithub", "BootstrapGit"} :
        /\ CountFail(c) = maxAttempts
        /\ CountOk(c) = 0

\* C3: once every bootstrap attempt has failed, Install can only run the
\* rollback and then return the bootstrap error, whatever Uninstall answers.
C3_BootstrapErrorReturned ==
    BootstrapExhausted =>
        \/ pc = "Uninstall"
        \/ /\ pc = "done"
           /\ ~ret.ok
           /\ ret.cause = "Bootstrap"

C3_Witness ==
    /\ BootstrapExhausted
    /\ pc = "done"
    /\ Last = Call("Uninstall", <<>>, "fail")
    /\ ret.cause = "Bootstrap"

\* The Uninstall calls of the log, in order.
UninstallCalls == SelectSeq(log, LAMBDA e : e.c = "Uninstall")

\* C4 as stated: after an exhausted BootstrapGithub, Install ends with exactly
\* one Uninstall call, whatever that call answered.
C4_Original ==
    (BootstrapExhausted /\ phase = "github" /\ pc = "done") => Count("Uninstall") = 1

\* C4 amended: after an exhausted BootstrapGithub the rollback runs exactly
\* once, under the retrier: Uninstall is called until it first succeeds, at
\* most maxAttempts times; once if the first call succeeds, maxAttempts times
\* if every call fails.
C4_UninstallOnceRetried ==
    (BootstrapExhausted /\ phase = "github" /\ pc = "done") =>
        LET u == UninstallCalls IN
        /\ Len(u) \in 1..maxAttempts
        /\ \A i \in 1..(Len(u) - 1) : u[i].r = "fail"
        /\ u[Len(u)].r = "fail" => Len(u) = maxAttempts
        /\ Last.c = "Uninstall"

C4_Witness ==
    /\ BootstrapExhausted
    /\ phase = "github"
    /\ pc = "done"
    /\ maxAttempts > 1
    /\ Count("Uninstall") = maxAttempts
    /\ CountOk("Uninstall") = 0

\* An InstallGitOps on the hosted path that started after an earlier
\* setupProviderRepository had returned nil.
SecondSetup == op = "Install" /\ gitTools /\ github /\ readyAtStart

SeedCommits == CountMsg("Commit", <<seedCommitMessage>>)
LastIdx(c) == CHOOSE i \in DOMAIN log : log[i].c = c /\ \A j \in DOMAIN log : log[j].c = c => j <= i

\* C5 as stated: a second setupProviderRepository makes no CreateRepo call and
\* no seed commit.
C5_Original == SecondSetup => Count("CreateRepo") = 0 /\ SeedCommits = 0

\* C5 amended: a second setupProviderRepository makes no CreateRepo call; it
\* makes a seed commit, at most one, only after Clone has again answered that
\* the remote is empty (nothing was pushed since the first invocation), and
\* none when the remote holds history.
C5_SecondSetup ==
    SecondSetup =>
        /\ Count("CreateRepo") = 0
        /\ SeedCommits <= 1
        /\ SeedCommits = 1 =>
              \E i \in DOMAIN log :
                  /\ log[i] = Call("Clone", <<>>, "empty")
                  /\ i < First("Commit")
                  /\ log[First("Commit")].a = <<seedCommitMessage>>

C5_Witness ==
    /\ SecondSetup
    /\ pc = "done"
    /\ ret = Nil
    /\ SeedCommits = 1
    /\ Count("CreateRepo") = 0

\* setupProviderRepository got a repository from GetRepo and the
\* RepositoryIsEmptyError from clone().
SetupCloneEmpty ==
    /\ op = "Install"
    /\ phase = "github"
    /\ Count("Clone") = maxAttempts
    /\ log[LastIdx("Clone")].r = "empty"

LocalInitCalls ==
    << Call("Init", <<>>, "ok"),
       Call("Commit", <<seedCommitMessage>>, "ok"),
       Call("Branch", <<Target>>, "ok") >>

\* C6: after GetRepo found the repository and clone() returned the
\* RepositoryIsEmptyError, setupProviderRepository never returns that error: it
\* calls Init, the seed commit (once) and Branch, in this order, never
\* CreateRepo; it returns nil when all three succeed and the error of the
\* first that fails otherwise.
C6_EmptyRemoteFallback ==
    SetupCloneEmpty =>
        LET rest == SubSeq(log, LastIdx("Clone") + 1, Len(log)) IN
        /\ Count("CreateRepo") = 0
        /\ log[LastIdx("Clone") - maxAttempts].r = "found"
        /\ ret.cause # "RepositoryIsEmpty"
        /\ SeedCommits <= 1
        /\ Len(rest) = 0 => pc = "Init"
        /\ \A i \in 1..3 : i <= Len(rest) =>
              /\ rest[i].c = LocalInitCalls[i].c
              /\ rest[i].a = LocalInitCalls[i].a
              /\ rest[i].r = "fail" =>
                    /\ Len(rest) = i
                    /\ pc = "done"
                    /\ ret.cvc
                    /\ ret.cause = <<"Init", "SeedCommit", "Branch">>[i]
        /\ rest = LocalInitCalls =>
              /\ ready
              /\ \/ pc \in {"validateLocal", "initEksaWriter", "initFluxWriter", "Add"}
                 \/ pc = "done" /\ ret.cause = "ConfigPathExists"
        /\ (Len(rest) >= 3 /\ SubSeq(rest, 1, 3) = LocalInitCalls) =>
              ret.cause \notin {"Init", "SeedCommit", "Branch", "Clone", "GetRepo"}

C6_Witness ==
    /\ SetupCloneEmpty
    /\ pc = "validateLocal"
    /\ SubSeq(log, LastIdx("Clone") + 1, Len(log)) = LocalInitCalls

\* setupProviderRepository learnt from GetRepo that the remote is missing.
SetupNotFound ==
    /\ op = "Install"
    /\ phase = "github"
    /\ \E i \in DOMAIN log : log[i] = Call("GetRepo", <<>>, "notfound")

CreateRepoCalls == SelectSeq(log, LAMBDA e : e.c = "CreateRepo")

\* C7 as stated: on the not-found path exactly one CreateRepo call is made, Init
\* comes only after it succeeded, and Clone is never called.
C7_Original ==
    SetupNotFound =>
        /\ Count("CreateRepo") <= 1
        /\ pc # "CreateRepo" => Count("CreateRepo") = 1
        /\ Count("Clone") = 0
        /\ Count("Init") > 0 =>
              CountOk("CreateRepo") = 1 /\ First("CreateRepo") < First("Init")

\* C7 amended: on the not-found path CreateRepo is called under the retrier,
\* until it first succeeds and at most maxAttempts times, so exactly one
\* CreateRepo call succeeds before Init; Init is never called unless
\* CreateRepo has succeeded, and Clone is never called.
C7_CreateBeforeInit ==
    SetupNotFound =>
        LET c == CreateRepoCalls IN
        /\ Len(c) <= maxAttempts
        /\ pc # "CreateRepo" => Len(c) >= 1
        /\ \A i \in 1..(Len(c) - 1) : c[i].r = "fail"
        /\ Count("Clone") = 0
        /\ (Len(c) > 0 /\ c[Len(c)].r = "fail" /\ pc # "CreateRepo") =>
              /\ Len(c) = maxAttempts
              /\ pc = "done"
              /\ ret.cause = "CreateRepo"
              /\ Count("Init") = 0
        /\ Count("Init") > 0 =>
              /\ CountOk("CreateRepo") = 1
              /\ LastIdx("CreateRepo") < First("Init")
              /\ log[LastIdx("CreateRepo")].r = "ok"

C7_Witness ==
    /\ SetupNotFound
    /\ Count("CreateRepo") = 2
    /\ CountOk("CreateRepo") = 1
    /\ CountOk("Init") = 1

\* A Commit call of pushToRemoteRepo (any message but the seed message).
IsConfigCommit(e) == e.c = "Commit" /\ e.a # <<seedCommitMessage>>

\* The Push calls made since the latest Commit of pushToRemoteRepo.
PushesSinceCommit ==
    LET cs == {i \in DOMAIN log : IsConfigCommit(log[i])} IN
    IF cs = {} THEN 0
    ELSE LET k == CHOOSE i \in cs : \A j \in cs : j <= i IN
         Cardinality({i \in DOMAIN log : i > k /\ log[i].c = "Push"})

\* C8: in pushToRemoteRepo, after the commit succeeded, Push is called until it
\* first succeeds and at most maxAttempts times: if every attempt fails it has
\* been called maxAttempts times and a ConfigVersionControlFailedError is
\* returned; if attempt k succeeds it has been called k times and nil is
\* returned.
C8_PushRetried ==
    /\ (\E i \in DOMAIN log : IsConfigCommit(log[i])) =>
          pp.commits = 1 /\ pp.pushes = PushesSinceCommit
    /\ pp.result = "running" =>
          /\ pc = "Push"
          /\ pp.pushes = attempt
          /\ pp.pushes < maxAttempts
          /\ Len(log) >= pp.pushes
          /\ \A i \in 1..pp.pushes : log[Len(log) + 1 - i] = Call("Push", <<>>, "fail")
    /\ (pp.result = "failed" /\ pp.pushes > 0) =>
          /\ pp.pushes = maxAttempts
          /\ pp.okAt = 0
          /\ \A i \in 1..pp.pushes : log[Len(log) + 1 - i] = Call("Push", <<>>, "fail")
          /\ pc = "done"
          /\ ~ret.ok
          /\ ret.cvc
          /\ ret.cause = "Push"
    /\ pp.okAt > 0 =>
          /\ pp.pushes = pp.okAt
          /\ pp.okAt <= maxAttempts
          /\ pp.result = "ok"
    /\ pp.result = "ok" =>
          /\ pp.okAt > 0
          /\ ret.cause \notin {"Push", "Commit"}
          /\ op \in {"Update", "Cleanup"} => pc = "done" /\ ret = Nil

C8_Witness ==
    /\ pp.result = "failed"
    /\ maxAttempts > 1
    /\ pp.pushes = maxAttempts
    /\ ret.cause = "Push"

\* C9: a Commit of pushToRemoteRepo that fails is the last call of the
\* operation: it is not called again, Push is not called, and the operation
\* returns a ConfigVersionControlFailedError for it.
C9_CommitNotRetried ==
    /\ pp.commits <= 1
    /\ \A i \in DOMAIN log :
          (IsConfigCommit(log[i]) /\ log[i].r = "fail") =>
              /\ i = Len(log)
              /\ pc = "done"
              /\ ~ret.ok
              /\ ret.cvc
              /\ ret.cause = "Commit"
              /\ pp.commits = 1
              /\ pp.pushes = 0
              /\ PushesSinceCommit = 0

C9_Witness ==
    /\ pc = "done"
    /\ op = "Update"
    /\ Len(log) > 0
    /\ Last = Call("Commit", <<updateClusterconfigCommitMessage>>, "fail")

\* A configured Install, Update or Cleanup has returned.
ConfiguredOpDone == gitTools /\ pc = "done" /\ op \in {"Install", "Update", "Cleanup"}

\* C10 as stated: when such an operation returns nil, every commit it made has
\* been pushed and the remote is not ahead of the local copy.
C10_Original == (ConfiguredOpDone /\ ret.ok) => unpushed = 0 /\ ~remoteAhead

\* C10 amended: when such an operation returns nil, every commit it made has
\* been pushed (a successful Push follows each successful Commit); the remote
\* can be ahead of the local copy all the same, since the error of the Pull
\* that follows the bootstrap is only logged.
C10_SuccessMeansPushed ==
    (ConfiguredOpDone /\ ret.ok) =>
        /\ unpushed = 0
        /\ \A i \in DOMAIN log :
              (log[i].c = "Commit" /\ log[i].r = "ok") =>
                  \E j \in DOMAIN log : j > i /\ log[j] = Call("Push", <<>>, "ok")

C10_Witness ==
    /\ ConfiguredOpDone
    /\ op = "Install"
    /\ ret.ok
    /\ CountOk("Commit") = 2
    /\ unpushed = 0
    /\ remoteAhead
    /\ Last = Call("Pull", <<Target>>, "fail")

\* A configured InstallGitOps, running or returned.
ConfiguredInstall == op = "Install" /\ gitTools

\* The install path that ran last has returned nil: its commit was pushed and
\* its bootstrap succeeded, or was skipped for an existing management cluster.
PathSucceeded ==
    (github \/ git) =>
        /\ (github /\ git) => pathsDone = 1 /\ phase = "git"
        /\ CountOk("Commit") >= 1
        /\ CountOk("Push") = 1
        /\ IF existingManagement
           THEN Count("BootstrapGithub") + Count("BootstrapGit") = 0
           ELSE CountOk(BootstrapCall) = 1

\* C11: in a configured InstallGitOps, Pull(target) is called only after every
\* configured install path has returned nil, with or without a bootstrap; once
\* it is reached the install can only return nil, also when all maxAttempts
\* Pull calls fail; an install that returns an error has made no Pull call,
\* and one that returns nil has ended with its Pull calls.
C11_AdvisoryPull ==
    ConfiguredInstall =>
        /\ (pc = "Pull" \/ Count("Pull") > 0) =>
              /\ pc \in {"Pull", "done"}
              /\ PathSucceeded
              /\ ret \in {NoRet, Nil}
              /\ Count("Pull") <= maxAttempts
              /\ \A i \in DOMAIN log : log[i].c = "Pull" =>
                    /\ log[i].a = <<Target>>
                    /\ \A j \in DOMAIN log : j > i => log[j].c = "Pull"
                    /\ i < Len(log) => log[i].r = "fail"
        /\ pc = "done" =>
              /\ ret.ok <=> Count("Pull") > 0
              /\ ret.ok =>
                    /\ ret = Nil
                    /\ Last.c = "Pull"
                    /\ Last.r = "fail" => Count("Pull") = maxAttempts

C11_Witness ==
    /\ ConfiguredInstall
    /\ github
    /\ existingManagement
    /\ pc = "done"
    /\ ret = Nil
    /\ maxAttempts > 1
    /\ Count("Pull") = maxAttempts
    /\ CountOk("Pull") = 0

\* A configured Install, Update or Cleanup has returned the error of a failed
\* Add, Remove, Commit, Push, Init or Clone call.
FailedOnVersionControl ==
    /\ gitTools
    /\ pc = "done"
    /\ op \in {"Install", "Update", "Cleanup"}
    /\ ~ret.ok
    /\ ret.cause \in {"Add", "Remove", "Commit", "SeedCommit", "Push", "Init", "Clone",
                      "RepositoryIsEmpty"}

\* C12 as stated: whenever Install, Update or Cleanup fails because an Add,
\* Remove, Commit, Push, Init or Clone call failed, the returned error is, or
\* wraps in its chain, a ConfigVersionControlFailedError, on the hosted path,
\* the generic path and the syncGitRepo path alike.
C12_Original == FailedOnVersionControl => ret.typed

\* An install path has returned the error of validateLocalConfigPathDoesNotExist.
ValidateLocalFailed == ConfiguredInstall /\ pc = "done" /\ ret.cause = "ConfigPathExists"

\* validateLocalConfigPathDoesNotExist has just returned nil: the install path
\* stands right after the Branch call that precedes the validation.
ValidateLocalPassed ==
    /\ ConfiguredInstall
    /\ pc \in {"initEksaWriter", "initFluxWriter", "Add"}
    /\ Len(log) > 0
    /\ Last = Call("Branch", <<Target>>, "ok")

BootstrapCalls == Count("BootstrapGithub") + Count("BootstrapGit")

C13_WorkloadPasses == ValidateLocalPassed /\ ~selfManaged /\ pathExists

\* A configured CleanupGitRepo whose syncGitRepo has returned nil.
CleanupSynced ==
    /\ op = "Cleanup"
    /\ gitTools
    /\ Len(log) > 0
    /\ \E i \in DOMAIN log : log[i] = Call("Branch", <<Target>>, "ok")

\* The path a cleanup removes is present under the local working directory:
\* the eksa-system directory of a workload cluster, the base configuration
\* path of a self-managed one.
RemovalPathPresent == IF selfManaged THEN pathExists ELSE eksaExists

\* C14: in a configured Cleanup whose syncGitRepo succeeded, Remove is reached
\* only when the removal path is present locally; when it is absent the
\* operation returns nil right after the Branch call of syncGitRepo, with no
\* Remove, Commit or Push call; Commit and Push only ever follow a successful
\* Remove of that path.
C14_CleanupAbsentPath ==
    CleanupSynced =>
        /\ (pc = "Remove" /\ Count("Remove") = 0) => RemovalPathPresent
        /\ (pc = "done" /\ Last = Call("Branch", <<Target>>, "ok")) =>
              /\ ~RemovalPathPresent
              /\ ret = Nil
              /\ Count("Remove") + Count("Commit") + Count("Push") = 0
        /\ (Count("Remove") = 0 /\ pc \notin {"removalPath", "Remove"}) =>
              /\ pc = "done"
              /\ ret = Nil
              /\ Last = Call("Branch", <<Target>>, "ok")
        /\ Count("Remove") <= 1
        /\ \A i \in DOMAIN log : log[i].c = "Remove" =>
              log[i].a = <<IF selfManaged THEN BasePath ELSE EksaSystemDir>>
        /\ Count("Commit") + Count("Push") > 0 =>
              /\ CountOk("Remove") = 1
              /\ First("Remove") < First("Commit")

C14_Witness ==
    /\ CleanupSynced
    /\ ~selfManaged
    /\ pathExists
    /\ ~eksaExists
    /\ pc = "done"
    /\ ret = Nil
    /\ Count("Remove") + Count("Commit") + Count("Push") = 0

\* The commit and the push of the running install path have succeeded.
InstallPushed ==
    /\ ConfiguredInstall
    /\ phase \in {"github", "git"}
    /\ CountOk("Push") = 1

\* C15: in a configured Install, once the commit and the push of an install
\* path have succeeded, that path makes a bootstrap call iff the cluster is no
\* existing management cluster: it is the next call then, and for an existing
\* management cluster neither bootstrap nor Uninstall is ever called.  No
\* bootstrap call precedes the successful push; the hosted path calls only
\* BootstrapGithub, the generic path only BootstrapGit.
C15_BootstrapIffNew ==
    ConfiguredInstall =>
        /\ existingManagement =>
              /\ BootstrapCalls + Count("Uninstall") = 0
              /\ pc \notin {"Bootstrap", "Uninstall"}
        /\ phase = "github" => Count("BootstrapGit") = 0
        /\ phase = "git" => Count("BootstrapGithub") = 0
        /\ phase = "none" => BootstrapCalls = 0
        /\ (pc = "Bootstrap" \/ BootstrapCalls > 0) =>
              /\ ~existingManagement
              /\ InstallPushed
              /\ CountOk("Commit") >= 1
              /\ BootstrapCalls > 0 => LastIdx("Push") < First(BootstrapCall)
        /\ (InstallPushed /\ ~existingManagement) =>
              /\ pc = "Bootstrap" \/ Count(BootstrapCall) > 0
              /\ Len(log) > LastIdx("Push") => log[LastIdx("Push") + 1].c = BootstrapCall
        /\ (InstallPushed /\ existingManagement) =>
              pc \in {"installGitOpsGenericGit", "Pull", "done"}

C15_Witness ==
    /\ InstallPushed
    /\ phase = "git"
    /\ ~existingManagement
    /\ pc = "done"
    /\ ret = Nil
    /\ CountOk("BootstrapGit") = 1

\* An existing management cluster installed without any bootstrap call.
C15_ExistingManagement ==
    /\ InstallPushed
    /\ existingManagement
    /\ pc = "done"
    /\ ret = Nil
    /\ BootstrapCalls = 0

Wrote(dir, file) == \E i \in DOMAIN log : log[i] = Call("Write", <<dir, file>>, "ok")
Touched(dir) == \E i \in DOMAIN log : log[i].c \in {"WithDir", "Write"} /\ log[i].a[1] = dir

\* {basePath}/{clusterName}/eksa-system/{eksa-cluster.yaml, kustomization.yaml}
EksaWritten ==
    /\ Wrote(EksaSystemDir, clusterConfigFileName)
    /\ Wrote(EksaSystemDir, kustomizeFileName)

\* {basePath}/{namespace}/{kustomization.yaml, gotk-sync.yaml, gotk-patches.yaml}
FluxWritten ==
    /\ Wrote(FluxSystemDir, kustomizeFileName)
    /\ Wrote(FluxSystemDir, fluxSyncFileName)
    /\ Wrote(FluxSystemDir, fluxPatchFileName)

\* An install path of a configured Install has written what it writes: it
\* stands at, or has made, its Add call.
ManifestsDone == ConfiguredInstall /\ (pc = "Add" \/ Count("Add") > 0)

\* C16 as stated: every install writes the two eksa-system files, and writes
\* the three toolkit manifests iff the cluster is self-managed.
C16_Original ==
    /\ ManifestsDone => EksaWritten /\ (FluxWritten <=> selfManaged)
    /\ (ConfiguredInstall /\ ~selfManaged) => ~Touched(FluxSystemDir)

\* C16 amended: an install path writes the cluster-configuration manifest and
\* its kustomization file under the eksa-system directory iff a datacenter or
\* machine configuration was passed (for every cluster, self-managed or not),
\* and the three toolkit manifests iff the cluster is self-managed, after the
\* eksa-system files; a workload cluster never touches the toolkit directory.
C16_Manifests ==
    ConfiguredInstall =>
        /\ ~selfManaged => ~Touched(FluxSystemDir)
        /\ ~hasConfigs => ~Touched(EksaSystemDir)
        /\ ManifestsDone =>
              /\ EksaWritten <=> hasConfigs
              /\ FluxWritten <=> selfManaged
        /\ \A i \in DOMAIN log : log[i].c = "Write" =>
              /\ log[i].a \in { <<EksaSystemDir, clusterConfigFileName>>,
                                <<EksaSystemDir, kustomizeFileName>>,
                                <<FluxSystemDir, kustomizeFileName>>,
                                <<FluxSystemDir, fluxSyncFileName>>,
                                <<FluxSystemDir, fluxPatchFileName>> }
              /\ \A j \in DOMAIN log : (j # i /\ log[j].c = "Write") => log[j].a # log[i].a
              /\ \A j \in DOMAIN log :
                    (j < i /\ log[j].c = "Write" /\ log[j].a[1] = FluxSystemDir) =>
                        log[i].a[1] = FluxSystemDir

C16_Witness ==
    /\ ManifestsDone
    /\ ~selfManaged
    /\ hasConfigs
    /\ EksaWritten
    /\ ~Touched(FluxSystemDir)
    /\ pc = "done"
    /\ ret = Nil

\* C17 as stated: the RepositoryIsEmptyError ends the Retry around Clone: once
\* Clone has answered that the remote is empty, setupProviderRepository makes
\* no further Clone call before it starts the local initialization.
C17_Original ==
    (op = "Install" /\ phase = "github") =>
        \A i \in DOMAIN log :
            log[i] = Call("Clone", <<>>, "empty") =>
                \A j \in DOMAIN log : j > i => log[j].c # "Clone"

\* The hosted install path, which starts with setupProviderRepository.
HostedSetup == op = "Install" /\ gitTools /\ phase = "github"

\* Init is the next call, or has been made.
InitReached == pc = "Init" \/ Count("Init") > 0

\* The remote was not found and CreateRepo succeeded.
CreatedRemote ==
    /\ \E i \in DOMAIN log : log[i] = Call("GetRepo", <<>>, "notfound")
    /\ CountOk("CreateRepo") = 1
    /\ Count("Clone") = 0
    /\ Count("Init") > 0 => First("Init") = LastIdx("CreateRepo") + 1

\* The remote was found and the Retry around Clone returned the
\* RepositoryIsEmptyError, the error of its last attempt.
CloneSaidEmpty ==
    /\ \E i \in DOMAIN log : log[i] = Call("GetRepo", <<>>, "found")
    /\ Count("CreateRepo") = 0
    /\ Count("Clone") = maxAttempts
    /\ log[LastIdx("Clone")].r = "empty"
    /\ Count("Init") > 0 => First("Init") = LastIdx("Clone") + 1

\* setupProviderRepository has returned an error and made its last call.
SetupFailedAt(call, cause) ==
    /\ pc = "done"
    /\ ~ret.ok
    /\ ret.cause = cause
    /\ Last = call
    /\ Count("Init") + Count("CreateRepo") = 0

\* C18: setupProviderRepository calls Init only after the remote was not found
\* and CreateRepo succeeded, or after the remote was found and clone() returned
\* the RepositoryIsEmptyError, and at most once.  When every GetRepo attempt
\* fails, when the last Clone attempt fails with another error, or when the
\* Branch call after a successful Clone fails, it returns an error at once and
\* neither Init nor CreateRepo is called.
C18_InitOnlyTwoWays ==
    HostedSetup =>
        /\ InitReached => CreatedRemote \/ CloneSaidEmpty
        /\ Count("Init") <= 1
        /\ CountOk("Clone") = 1 => Count("Init") + Count("CreateRepo") = 0
        /\ CountFail("GetRepo") = maxAttempts =>
              SetupFailedAt(Call("GetRepo", <<>>, "fail"), "GetRepo")
        /\ (Count("Clone") = maxAttempts /\ log[LastIdx("Clone")].r = "fail") =>
              SetupFailedAt(Call("Clone", <<>>, "fail"), "Clone")
        /\ (CountOk("Clone") = 1 /\ CountFail("Branch") > 0) =>
              SetupFailedAt(Call("Branch", <<Target>>, "fail"), "Branch")

C18_Witness ==
    /\ HostedSetup
    /\ remote = "empty"
    /\ \E i \in DOMAIN log : log[i] = Call("Clone", <<>>, "empty")
    /\ SetupFailedAt(Call("Clone", <<>>, "fail"), "Clone")

\* A configured Install, Update or Cleanup, running or returned.
ConfiguredGitOp == gitTools /\ op \in {"Install", "Update", "Cleanup"}

\* Before call i the operation has seen the git metadata of the local working
\* copy (a successful Clone or Init, or .git found by syncGitRepo, which then
\* starts with its Branch call) and then a successful Branch(target).
BranchedBefore(i) ==
    \E j \in 1..(i - 1) :
        /\ log[j] = Call("Branch", <<Target>>, "ok")
        /\ \/ \E k \in 1..(j - 1) : log[k] \in {Call("Clone", <<>>, "ok"), Call("Init", <<>>, "ok")}
           \/ j = 1 /\ op \in {"Update", "Cleanup"}

\* C19: in every configured Install, Update and Cleanup, each Commit of
\* pushToRemoteRepo (initial, update or delete message) comes after a
\* successful Branch(target), which itself comes after a successful Clone, a
\* successful Init, or the finding of .git by syncGitRepo; the local directory
\* holds .git when the commit is made.
C19_CommitAfterBranch ==
    ConfiguredGitOp =>
        /\ \A i \in DOMAIN log : IsConfigCommit(log[i]) =>
              /\ log[i].a = <<CommitMessage>>
              /\ BranchedBefore(i)
              /\ dotGit
        /\ pc = "Commit" => BranchedBefore(Len(log) + 1) /\ dotGit

C19_Witness ==
    /\ ConfiguredGitOp
    /\ op = "Update"
    /\ pc = "done"
    /\ ret = Nil
    /\ Count("Clone") + Count("Init") = 0
    /\ log[1] = Call("Branch", <<Target>>, "ok")
    /\ \E i \in DOMAIN log : IsConfigCommit(log[i]) /\ log[i].r = "ok"

\* A configured Update or Cleanup: both start with syncGitRepo.
SyncOp == gitTools /\ op \in {"Update", "Cleanup"}

CloneCalls == SelectSeq(log, LAMBDA e : e.c = "Clone")

C20_BranchOnly ==
    /\ SyncOp
    /\ pc = "done"
    /\ ret = Nil
    /\ log[1] = Call("Branch", <<Target>>, "ok")
    /\ Count("Clone") = 0

\* The generic install path of a configured Install.
GenericSetup == op = "Install" /\ gitTools /\ phase = "git"

\* C21: the generic install path sets the repository up with Clone, under the
\* retrier, followed by Branch(target): it never calls GetRepo, CreateRepo or
\* Init and makes no seed commit; when the last Clone attempt fails, with the
\* RepositoryIsEmptyError or any other error, the install returns that error
\* at once.
C21_GenericPlainClone ==
    GenericSetup =>
        /\ Count("GetRepo") + Count("CreateRepo") + Count("Init") + SeedCommits = 0
        /\ pc \notin {"GetRepo", "CreateRepo", "Init", "SeedCommit", "InitBranch"}
        /\ Len(log) = 0 => pc = "Clone"
        /\ Len(log) > 0 =>
              LET n == Len(CloneCalls) IN
              /\ n \in 1..maxAttempts
              /\ SubSeq(log, 1, n) = CloneCalls
              /\ \A i \in 1..(n - 1) : log[i].r # "ok"
              /\ (log[n].r # "ok" /\ pc # "Clone") =>
                    /\ n = maxAttempts
                    /\ Len(log) = n
                    /\ pc = "done"
                    /\ ~ret.ok
                    /\ ret.cause = (IF log[n].r = "empty" THEN "RepositoryIsEmpty" ELSE "Clone")
              /\ log[n].r = "ok" =>
                    /\ Len(log) = n => pc = "Branch"
                    /\ Len(log) > n => log[n + 1].c = "Branch" /\ log[n + 1].a = <<Target>>
                    /\ Count("Branch") <= 1

C21_Witness ==
    /\ GenericSetup
    /\ pc = "done"
    /\ ret.cause = "RepositoryIsEmpty"
    /\ Last = Call("Clone", <<>>, "empty")
    /\ Count("Clone") = maxAttempts

\* Positions at which no operation is running.
Resting == pc \in {"idle", "done", "validations"}

\* The calls made under the retrier, and the local calls made outside it.
RetriedCalls ==
    {"GetRepo", "CreateRepo", "Clone", "Push", "BootstrapGithub", "BootstrapGit",
     "Uninstall", "Pull", "SuspendKustomization", "ResumeKustomization"}
LocalCalls == {"Init", "Commit", "Branch", "Add", "Remove"}

Succeeded(e) == e.r \in {"ok", "found", "notfound"}

\* Each retried step has called its collaborator at most maxAttempts times, in
\* a row, and not again after a success; each local call was made at most once
\* per step (Commit once per message), and one that failed is the last call of
\* the operation, which has returned an error.
RetryBounds ==
    /\ attempt < maxAttempts
    /\ \A c \in RetriedCalls : Count(c) <= maxAttempts
    /\ \A i \in DOMAIN log :
          /\ (log[i].c \in RetriedCalls /\ i < Len(log) /\ log[i + 1].c = log[i].c) =>
                ~Succeeded(log[i])
          /\ log[i].c \in RetriedCalls =>
                \A j \in DOMAIN log : (j > i /\ log[j].c = log[i].c) => log[i + 1].c = log[i].c
          /\ log[i].c \in LocalCalls =>
                /\ \A j \in DOMAIN log :
                      (j # i /\ log[j].c = log[i].c) => log[j].a # log[i].a
                /\ ~Succeeded(log[i]) => i = Len(log) /\ pc = "done" /\ ~ret.ok
    /\ Count("Init") <= 1 /\ Count("Add") <= 1 /\ Count("Remove") <= 1
    /\ Count("Branch") <= 1 /\ Count("Commit") <= 2

\* C22: every operation that was called returns, whatever the collaborators
\* answer, and on the way each retried call is made at most maxAttempts times
\* per retried step and each local call at most once per step, never again
\* after it failed.
C22_TerminatesBounded == []RetryBounds /\ (~Resting ~> Resting)

C22_Witness ==
    /\ op = "Install"
    /\ pc = "done"
    /\ maxAttempts > 1
    /\ Count("GetRepo") = maxAttempts
    /\ Count("CreateRepo") = maxAttempts
    /\ Count("Clone") = 0
    /\ Last = Call("Init", <<>>, "fail")

\* Before position i of the log the initial commit of the cluster
\* configuration succeeded and, after it, a Push.
CommittedAndPushedBefore(i) ==
    \E j \in 1..(i - 1) :
        /\ log[j] = Call("Commit", <<initialClusterconfigCommitMessage>>, "ok")
        /\ \E k \in (j + 1)..(i - 1) : log[k] = Call("Push", <<>>, "ok")

IsToolkitCall(e) == e.c \in {"BootstrapGithub", "BootstrapGit", "Uninstall"}

\* The Retry around call c has returned an error to the install path.
RetryFailed(c) ==
    /\ Count(c) > 0
    /\ pc # c
    /\ \/ log[LastIdx(c)].r = "fail"
       \/ log[LastIdx(c)].r = "empty" /\ phase = "git"

\* C23: in a configured Install, every bootstrap and Uninstall call is
\* preceded, on its install path, by a successful initial commit and a later
\* successful Push.  A failure of the repository setup (GetRepo, CreateRepo,
\* Clone, Init, seed commit, Branch), of the local-path validation, of a
\* manifest write, of Add, Commit or Push makes the install return an error
\* with no bootstrap or Uninstall call made.
C23_BootstrapAfterPush ==
    ConfiguredInstall =>
        /\ \A i \in DOMAIN log : IsToolkitCall(log[i]) => CommittedAndPushedBefore(i)
        /\ pc \in {"Bootstrap", "Uninstall"} => CommittedAndPushedBefore(Len(log) + 1)
        /\ \A i \in DOMAIN log :
              (log[i].c \in {"Init", "Commit", "Branch", "WithDir", "Write", "Add"}
                  /\ ~Succeeded(log[i])) =>
                    /\ i = Len(log)
                    /\ pc = "done"
                    /\ ~ret.ok
                    /\ BootstrapCalls + Count("Uninstall") = 0
        /\ \A c \in {"GetRepo", "CreateRepo", "Clone", "Push"} :
              RetryFailed(c) =>
                    /\ LastIdx(c) = Len(log)
                    /\ pc = "done"
                    /\ ~ret.ok
                    /\ BootstrapCalls + Count("Uninstall") = 0
        /\ (pc = "done" /\ ret.cause = "ConfigPathExists") =>
              ~ret.ok /\ BootstrapCalls + Count("Uninstall") = 0

C23_Witness ==
    /\ ConfiguredInstall
    /\ ~existingManagement
    /\ pc = "done"
    /\ ret.cause = "Push"
    /\ CountOk("Commit") >= 1
    /\ RetryFailed("Push")
    /\ BootstrapCalls + Count("Uninstall") = 0

InitialCommitCalls == CountMsg("Commit", <<initialClusterconfigCommitMessage>>)

\* The hosted path hands over to the generic path only after it made one
\* initial commit, which succeeded, and, unless the cluster is an existing
\* management cluster, one bootstrap sequence: pathsDone counts such paths.
PathsDoneCounted ==
    /\ pc = "installGitOpsGenericGit" =>
          /\ pathsDone = 0
          /\ InitialCommitCalls = 1
          /\ \E i \in DOMAIN log :
                log[i] = Call("Commit", <<initialClusterconfigCommitMessage>>, "ok")
          /\ Count("BootstrapGit") = 0
          /\ existingManagement <=> Count("BootstrapGithub") = 0
    /\ pathsDone \in {0, 1}
    /\ pathsDone = 1 => op = "Install" /\ github /\ git /\ phase = "git"

\* Initial commits and bootstrap sequences of the running InstallGitOps
\* invocation, over the install paths it has run.
InitialCommits == pathsDone + InitialCommitCalls
BootstrapSequences ==
    (IF pathsDone = 1 /\ ~existingManagement THEN 1 ELSE 0)
        + (IF BootstrapCalls > 0 THEN 1 ELSE 0)

\* C24 as stated: an InstallGitOps invocation with a provider configured
\* (Github, Git or both) makes at most one commit with the initial-commit
\* message and runs at most one bootstrap sequence, and has made exactly one
\* such commit when it returns nil.
C24_Original ==
    (ConfiguredInstall /\ (github \/ git)) =>
        /\ InitialCommits <= 1
        /\ BootstrapSequences <= 1
        /\ (pc = "done" /\ ret.ok) => InitialCommits = 1

====
